---- MODULE Spec2Model ----
(***************************************************************************)
(* NAS command line parser (openair3/NAS/UE/nas_parser.c).                 *)
(*                                                                         *)
(* Two specifications share this module:                                   *)
(*   Spec     the option table nasParserCommandLine and the exported       *)
(*            functions of nas_parser.c acting on it;                      *)
(*   SpecHex  the local function atohex run one loop iteration at a time   *)
(*            on inputs drawn from a bounded set (FairSpecHex adds the     *)
(*            progress of sequential code).                                *)
(*                                                                         *)
(* A C string is a sequence of one-character strings; its terminating NUL  *)
(* is the character read at offset Len(s).                                 *)
(***************************************************************************)
EXTENDS Integers, Sequences, FiniteSets, TLC

VARIABLES nasParserCommandLine, stderr, ret, engine, nparse, frame

vars == <<nasParserCommandLine, stderr, ret, engine, nparse, frame>>

tableVars == <<nasParserCommandLine, stderr, ret, engine, nparse>>

(***************************************************************************)
(* Bounds of the model.                                                    *)
(***************************************************************************)
MaxLen == 3

MaxLong == 10

MaxParses == 2

MaxPrints == 1

(***************************************************************************)
(* Characters.  Ord gives the code of a character in the execution         *)
(* character set (ASCII), which the comparisons and subtractions of atohex *)
(* and atoi work on.                                                       *)
(***************************************************************************)
NUL == "\\0"

FAULT == "SIGSEGV"

Ord ==
  (NUL :> 0) @@ (" " :> 32) @@ ("+" :> 43) @@ ("-" :> 45) @@ ("/" :> 47) @@
  ("0" :> 48) @@ ("1" :> 49) @@ ("2" :> 50) @@ ("3" :> 51) @@ ("4" :> 52) @@
  ("5" :> 53) @@ ("6" :> 54) @@ ("7" :> 55) @@ ("8" :> 56) @@ ("9" :> 57) @@
  (":" :> 58) @@ ("@" :> 64) @@
  ("A" :> 65) @@ ("B" :> 66) @@ ("C" :> 67) @@ ("D" :> 68) @@ ("E" :> 69) @@
  ("F" :> 70) @@ ("G" :> 71) @@ ("L" :> 76) @@ ("N" :> 78) @@ ("U" :> 85) @@
  ("_" :> 95) @@
  ("a" :> 97) @@ ("b" :> 98) @@ ("c" :> 99) @@ ("d" :> 100) @@ ("e" :> 101) @@
  ("f" :> 102) @@ ("g" :> 103) @@ ("h" :> 104) @@ ("i" :> 105) @@
  ("l" :> 108) @@ ("m" :> 109) @@ ("n" :> 110) @@ ("o" :> 111) @@
  ("p" :> 112) @@ ("r" :> 114) @@ ("s" :> 115) @@ ("t" :> 116) @@
  ("u" :> 117) @@ ("v" :> 118) @@ ("x" :> 120)

Char == DOMAIN Ord \ {NUL}

(***************************************************************************)
(* Pointers to char: the null pointer, or an offset into a string.         *)
(***************************************************************************)
NULL == [null |-> TRUE, str |-> <<>>, off |-> 0]

Ptr(s) == [null |-> FALSE, str |-> s, off |-> 0]

\* *p : the characters a read through p can yield.  Offset Len(str) holds the
\* terminator.  A read through the null pointer or past the terminator is
\* undefined: it may fault or yield any character.
Deref(p) ==
  IF p.null THEN {FAULT}
  ELSE IF p.off < Len(p.str) THEN {p.str[p.off + 1]}
  ELSE IF p.off = Len(p.str) THEN {NUL}
  ELSE DOMAIN Ord \cup {FAULT}

(***************************************************************************)
(* int: 32 bits, two's complement.                                         *)
(***************************************************************************)
IntBits == 32

\* ShiftAdd with an overflow check: an accumulator whose high four bits are
\* in use is left as it is.
ShiftAdd_Checked(result, d) ==
  IF result < 0 \/ result >= 2 ^ (IntBits - 5) THEN result
  ELSE result * 16 + d

\* (result << 4) + d on int.  The shift drops the four high bits and bit 27
\* becomes the sign bit (what gcc documents for << on signed operands); the
\* low four bits of the shifted value are zero, so adding d in 0..15 cannot
\* carry.  Written so that no intermediate value leaves the range of int.
ShiftAdd(result, d) ==
  LET lo == result % (2 ^ (IntBits - 4))
  IN  IF lo >= 2 ^ (IntBits - 5)
        THEN (lo - 2 ^ (IntBits - 4)) * 16 + d
        ELSE lo * 16 + d

(***************************************************************************)
(* atohex, nas_parser.c:323-340.                                           *)
(* frame is the activation record: arg the argument, a_char the moving     *)
(* pointer, result the accumulator, reads the offsets dereferenced so far, *)
(* pc the position in the function, exit how the loop was left.            *)
(***************************************************************************)
\* The guard written `*a_char`: it reads the character instead of testing
\* the pointer.
atohexGuard_Deref(a_char) == a_char.null \/ Deref(a_char) # {NUL}

\* One evaluation of the loop guard `a_char`.
atohexGuard(a_char) == ~a_char.null

\* The loop body with the lower-case branch written as `*a_char - 'a'`.
atohexBody_NoOffset(result, c) ==
  IF Ord[c] >= Ord["0"] /\ Ord[c] <= Ord["9"]
    THEN [result |-> ShiftAdd(result, Ord[c] - Ord["0"]), brk |-> FALSE]
  ELSE IF Ord[c] >= Ord["A"] /\ Ord[c] <= Ord["F"]
    THEN [result |-> ShiftAdd(result, Ord[c] - Ord["A"] + 10), brk |-> FALSE]
  ELSE IF Ord[c] >= Ord["a"] /\ Ord[c] <= Ord["f"]
    THEN [result |-> ShiftAdd(result, Ord[c] - Ord["a"]), brk |-> FALSE]
  ELSE [result |-> result, brk |-> TRUE]

\* The loop body applied to the character c read from *a_char:
\* the new accumulator and whether the loop continues.
atohexBody(result, c) ==
  IF Ord[c] >= Ord["0"] /\ Ord[c] <= Ord["9"]
    THEN [result |-> ShiftAdd(result, Ord[c] - Ord["0"]), brk |-> FALSE]
  ELSE IF Ord[c] >= Ord["A"] /\ Ord[c] <= Ord["F"]
    THEN [result |-> ShiftAdd(result, Ord[c] - Ord["A"] + 10), brk |-> FALSE]
  ELSE IF Ord[c] >= Ord["a"] /\ Ord[c] <= Ord["f"]
    THEN [result |-> ShiftAdd(result, Ord[c] - Ord["a"] + 10), brk |-> FALSE]
  ELSE [result |-> result, brk |-> TRUE]

\* Guard, body and increment of one turn of the for loop, the character read
\* being c (FAULT when the read faults).
atohexStep(f, c) ==
  IF ~atohexGuard(f.a_char)
    THEN [f EXCEPT !.pc = "done", !.exit = "guard"]
  ELSE IF c = FAULT
    THEN [f EXCEPT !.pc = "fault", !.exit = "fault",
                   !.reads = Append(@, f.a_char.off)]
  ELSE LET b == atohexBody(f.result, c)
       IN  IF b.brk
             THEN [f EXCEPT !.pc = "done", !.exit = "break",
                            !.reads = Append(@, f.a_char.off)]
             ELSE [f EXCEPT !.result = b.result,
                            !.reads = Append(@, f.a_char.off),
                            !.a_char.off = @ + 1]

\* The characters the turn can read: none is read when the guard fails.
atohexReads(f) == IF atohexGuard(f.a_char) THEN Deref(f.a_char) ELSE {NUL}

\* The for statement with an empty init clause.
atohexInit_NoZero(f) == [f EXCEPT !.pc = "loop"]

\* `result = 0`, the init clause of the for statement.
atohexInit(f) == [f EXCEPT !.result = 0, !.pc = "loop"]

\* The frame on entry: result is an uninitialised automatic variable.
atohexEntry(a, garbage) ==
  [arg |-> a, a_char |-> a, result |-> garbage, reads |-> <<>>,
   pc |-> "entry", exit |-> "none", retval |-> 0]

\* The whole call: the set of frames it can end in.
RECURSIVE atohexRun(_)
atohexRun(f) ==
  IF f.pc # "loop" THEN {f}
  ELSE UNION { atohexRun(atohexStep(f, c)) : c \in atohexReads(f) }

\* The values atohex(a) can return (none if it faults).
atohex(a) ==
  { f.result : f \in { g \in atohexRun(atohexInit(atohexEntry(a, 0))) :
                       g.pc = "done" } }

(***************************************************************************)
(* SpecHex: atohex on every input of HexInputs.                            *)
(***************************************************************************)
RECURSIVE SeqsUpTo(_, _)
SeqsUpTo(A, n) ==
  IF n = 0 THEN {<<>>}
  ELSE LET P == SeqsUpTo(A, n - 1)
       IN  P \cup { Append(s, c) : s \in { p \in P : Len(p) = n - 1 }, c \in A }

\* Characters on both sides of each comparison of the loop body.
ShortAlphabet == {"/", "0", "9", ":", "@", "A", "F", "G", "_", "a", "f", "g"}

LongAlphabet == {"1", "F"}

\* The number of hex digits that fill an int.
IntDigits == IntBits \div 4

Examples ==
  { <<"F", "F">>, <<"1", "0", "0">>, <<"1", "G", "3">>,
    <<"a", "B">>, <<"A", "b">>, <<"A", "B">> }

HexStrings ==
  SeqsUpTo(ShortAlphabet, MaxLen) \cup Examples \cup
  { s \in SeqsUpTo(LongAlphabet, MaxLong) : Len(s) >= IntDigits }

HexInputs == {NULL} \cup { Ptr(s) : s \in HexStrings }

\* What an uninitialised int can hold.
Garbage == {0, -1}

IdleFrame == [atohexEntry(NULL, 0) EXCEPT !.pc = "idle"]

AtohexInit ==
  /\ frame.pc = "entry"
  /\ frame' = atohexInit(frame)
  /\ UNCHANGED tableVars

AtohexLoop ==
  /\ frame.pc = "loop"
  /\ \E c \in atohexReads(frame) : frame' = atohexStep(frame, c)
  /\ UNCHANGED tableVars

\* `return result;`
AtohexReturn ==
  /\ frame.pc = "done"
  /\ frame' = [frame EXCEPT !.pc = "returned", !.retval = frame.result]
  /\ UNCHANGED tableVars

NextHex == AtohexInit \/ AtohexLoop \/ AtohexReturn

(***************************************************************************)
(* The option table, nas_parser.c:56-105.                                  *)
(***************************************************************************)
\* The enumeration of lines 56-66: each enumerator is one more than the one
\* before it, the first being 0.
NasParserEnum ==
  << "NAS_PARSER_UE_ID", "NAS_PARSER_TRACE_LEVEL", "NAS_PARSER_USER_HOST",
     "NAS_PARSER_NETWORK_HOST", "NAS_PARSER_USER_PORT",
     "NAS_PARSER_NETWORK_PORT", "NAS_PARSER_DEVICE_PATH",
     "NAS_PARSER_DEVICE_ATTR", "NAS_PARSER_NB_OPTIONS" >>

EnumValue(e) == (CHOOSE i \in 1..Len(NasParserEnum) : NasParserEnum[i] = e) - 1

NAS_PARSER_UE_ID == EnumValue("NAS_PARSER_UE_ID")

NAS_PARSER_TRACE_LEVEL == EnumValue("NAS_PARSER_TRACE_LEVEL")

NAS_PARSER_USER_HOST == EnumValue("NAS_PARSER_USER_HOST")

NAS_PARSER_NETWORK_HOST == EnumValue("NAS_PARSER_NETWORK_HOST")

NAS_PARSER_USER_PORT == EnumValue("NAS_PARSER_USER_PORT")

NAS_PARSER_NETWORK_PORT == EnumValue("NAS_PARSER_NETWORK_PORT")

NAS_PARSER_DEVICE_PATH == EnumValue("NAS_PARSER_DEVICE_PATH")

NAS_PARSER_DEVICE_ATTR == EnumValue("NAS_PARSER_DEVICE_ATTR")

NAS_PARSER_NB_OPTIONS == EnumValue("NAS_PARSER_NB_OPTIONS")

\* Default values of nas_parser.h.
NAS_PARSER_DEFAULT_UE_ID == <<"1">>

NAS_PARSER_DEFAULT_TRACE_LEVEL == <<"0">>

NAS_PARSER_DEFAULT_NETWORK_HOSTNAME ==
  <<"l", "o", "c", "a", "l", "h", "o", "s", "t">>

NAS_PARSER_DEFAULT_USER_PORT_NUMBER == <<"1", "0", "0", "0", "0">>

NAS_PARSER_DEFAULT_NETWORK_PORT_NUMBER == <<"1", "2", "0", "0", "0">>

\* One initialiser of the options array: name, argument, usage, value.
Option(name, argument, usage, value) ==
  [name |-> name, argument |-> argument, usage |-> usage, pvalue |-> value]

\* The initialisers of lines 81-103, in the order they are written.
OptionRows ==
  << Option(<<"-", "u", "e", "i", "d">>, "<ueid>", "UE identifier\t\t\t",
            NAS_PARSER_DEFAULT_UE_ID),
     Option(<<"-", "t", "r", "a", "c", "e">>, "<mask>", "Logging trace level\t\t",
            NAS_PARSER_DEFAULT_TRACE_LEVEL),
     Option(<<"-", "u", "h", "o", "s", "t">>, "<uhost>",
            "User app layer's hostname\t", <<"N", "U", "L", "L">>),
     Option(<<"-", "n", "h", "o", "s", "t">>, "<nhost>",
            "Network layer's hostname\t", NAS_PARSER_DEFAULT_NETWORK_HOSTNAME),
     Option(<<"-", "u", "p", "o", "r", "t">>, "<uport>",
            "User app layer's port number\t",
            NAS_PARSER_DEFAULT_USER_PORT_NUMBER),
     Option(<<"-", "n", "p", "o", "r", "t">>, "<nport>",
            "Network layer's port number\t",
            NAS_PARSER_DEFAULT_NETWORK_PORT_NUMBER),
     Option(<<"-", "d", "e", "v">>, "<devpath>", "Device pathname\t\t",
            <<"N", "U", "L", "L">>),
     Option(<<"-", "p", "a", "r", "a", "m", "s">>, "<params>",
            "Device attribute parameters", <<"N", "U", "L", "L">>) >>

\* The static initialiser of lines 77-105; array elements are numbered from 0.
nasParserCommandLineInit ==
  [name |-> <<"N", "A", "S", "p", "r", "o", "c", "e", "s", "s">>,
   nb_options |-> NAS_PARSER_NB_OPTIONS,
   options |-> [i \in 0..(Len(OptionRows) - 1) |-> OptionRows[i + 1]]]

(***************************************************************************)
(* The external parsing engine (parser.h): parse and print_usage.          *)
(***************************************************************************)
RETURNok == "RETURNok"

RETURNerror == "RETURNerror"

\* The index of the option named tok, or -1.
OptionIndex(cl, tok) ==
  IF \E k \in 0..(cl.nb_options - 1) : cl.options[k].name = tok
    THEN CHOOSE k \in 0..(cl.nb_options - 1) : cl.options[k].name = tok
    ELSE -1

IsFlag(tok) == Len(tok) > 0 /\ tok[1] = "-"

\* Walks argv[i..argc-1]: an option name is followed by its argument, which
\* becomes the option's value; an unknown flag or a missing argument fails.
RECURSIVE parser_walk(_, _, _, _)
parser_walk(argc, argv, i, cl) ==
  IF i >= argc THEN [status |-> RETURNok, cl |-> cl]
  ELSE LET k == OptionIndex(cl, argv[i + 1])
       IN  IF k = -1 THEN [status |-> RETURNerror, cl |-> cl]
           ELSE IF i + 1 >= argc \/ IsFlag(argv[i + 2])
             THEN [status |-> RETURNerror, cl |-> cl]
           ELSE parser_walk(argc, argv, i + 2,
                            [cl EXCEPT !.options[k].pvalue = argv[i + 2]])

\* parse(argc, argv, table) -> status; the command name becomes argv[0].
parser_get_options(argc, argv, cl) ==
  parser_walk(argc, argv, 1, [cl EXCEPT !.name = argv[1]])

\* print_usage(table): one line per option, in table order, appended to err.
RECURSIVE parser_print_options(_, _, _)
parser_print_options(cl, k, err) ==
  IF k >= cl.nb_options THEN err
  ELSE parser_print_options(cl, k + 1,
         Append(err, [kind |-> "option", name |-> cl.options[k].name,
                      argument |-> cl.options[k].argument,
                      usage |-> cl.options[k].usage]))

parser_print_usage(cl, err) == parser_print_options(cl, 0, err)

(***************************************************************************)
(* atoi of <stdlib.h>: optional white space, optional sign, decimal        *)
(* digits; the conversion stops at the first other character.              *)
(***************************************************************************)
CharAt(s, i) == IF i < Len(s) THEN s[i + 1] ELSE NUL

IsDigit(c) == Ord[c] >= Ord["0"] /\ Ord[c] <= Ord["9"]

RECURSIVE atoiDigits(_, _, _)
atoiDigits(s, i, acc) ==
  IF IsDigit(CharAt(s, i))
    THEN atoiDigits(s, i + 1, acc * 10 + (Ord[CharAt(s, i)] - Ord["0"]))
    ELSE acc

RECURSIVE atoiSkip(_, _)
atoiSkip(s, i) == IF CharAt(s, i) = " " THEN atoiSkip(s, i + 1) ELSE i

atoi(s) ==
  LET i == atoiSkip(s, 0)
  IN  IF CharAt(s, i) = "-" THEN 0 - atoiDigits(s, i + 1, 0)
      ELSE IF CharAt(s, i) = "+" THEN atoiDigits(s, i + 1, 0)
      ELSE atoiDigits(s, i, 0)

(***************************************************************************)
(* Exported functions, nas_parser.c:130-317.  Each is given the table it   *)
(* reads; a function that writes returns what it wrote.                    *)
(***************************************************************************)
\* fprintf(stderr, "Version: %s\n", version)
VersionLine(version) == [kind |-> "version", text |-> version]

\* The two statements of nas_parser_print_usage in the other order.
nas_parser_print_usage_VersionFirst(version, cl, err) ==
  parser_print_usage(cl, Append(err, VersionLine(version)))

nas_parser_print_usage(version, cl, err) ==
  Append(parser_print_usage(cl, err), VersionLine(version))

\* nas_parser_get_options ignoring the status of the parse.
nas_parser_get_options_Swallow(argc, argv, cl) ==
  [status |-> RETURNok, cl |-> parser_get_options(argc, argv, cl).cl]

nas_parser_get_options(argc, argv, cl) == parser_get_options(argc, argv, cl)

\* nas_parser_get_nb_options returning the last index.
nas_parser_get_nb_options_LastIndex(cl) == cl.nb_options - 1

nas_parser_get_nb_options(cl) == cl.nb_options

\* The set of values the call can return.
nas_parser_get_trace_level(cl) ==
  atohex(Ptr(cl.options[NAS_PARSER_TRACE_LEVEL].pvalue))

nas_parser_get_network_host(cl) == cl.options[NAS_PARSER_NETWORK_HOST].pvalue

\* nas_parser_get_network_port indexing with NAS_PARSER_USER_PORT.
nas_parser_get_network_port_UserSlot(cl) ==
  cl.options[NAS_PARSER_USER_PORT].pvalue

nas_parser_get_network_port(cl) == cl.options[NAS_PARSER_NETWORK_PORT].pvalue

nas_parser_get_ueid(cl) == atoi(cl.options[NAS_PARSER_UE_ID].pvalue)

nas_parser_get_user_host(cl) == cl.options[NAS_PARSER_USER_HOST].pvalue

nas_parser_get_user_port(cl) == cl.options[NAS_PARSER_USER_PORT].pvalue

nas_parser_get_device_path(cl) == cl.options[NAS_PARSER_DEVICE_PATH].pvalue

nas_parser_get_device_params(cl) == cl.options[NAS_PARSER_DEVICE_ATTR].pvalue

(***************************************************************************)
(* Spec: calls of the exported functions, in any order.                    *)
(* ret is the last call (function, argument, returned value), engine the   *)
(* last call the engine's parse received and the status it produced,       *)
(* nparse the number of nas_parser_get_options calls made.                 *)
(***************************************************************************)
ValueTokens == { <<"F", "F">>, <<"1", "G", "3">> }

UnknownFlag == <<"-", "x">>

OptionNames == { OptionRows[i].name : i \in 1..Len(OptionRows) }

CommandName == <<"n", "a", "s">>

\* The arguments after argv[0]: none; one option with its argument; an option
\* without argument or followed by another option; an unknown flag; a stray
\* value; two options; a failure after an option was accepted.
ArgLists ==
  {<<>>}
    \cup { <<n, v>> : n \in OptionNames, v \in ValueTokens }
    \cup { <<n>> : n \in OptionNames }
    \cup { <<OptionRows[2].name, OptionRows[1].name>> }
    \cup { <<UnknownFlag>> } \cup { <<UnknownFlag, v>> : v \in ValueTokens }
    \cup { <<v>> : v \in ValueTokens }
    \cup { <<OptionRows[1].name, v, OptionRows[2].name, w>> :
             v \in ValueTokens, w \in ValueTokens }
    \cup { <<OptionRows[2].name, v, UnknownFlag>> : v \in ValueTokens }
    \cup { <<OptionRows[2].name, v, OptionRows[7].name>> : v \in ValueTokens }

ArgvSet == { <<CommandName>> \o t : t \in ArgLists }

Versions == { <<"1">>, <<"2">> }

void == <<>>

NbPrints == Cardinality({ i \in DOMAIN stderr : stderr[i].kind = "version" })

InitTable ==
  /\ nasParserCommandLine = nasParserCommandLineInit
  /\ stderr = <<>>
  /\ ret = [fn |-> "none", arg |-> void, val |-> void]
  /\ engine = [argc |-> 0, argv |-> <<>>, status |-> "none"]
  /\ nparse = 0

Init == InitTable /\ frame = IdleFrame

InitHex ==
  /\ InitTable
  /\ frame \in { atohexEntry(a, g) : a \in HexInputs, g \in Garbage }

Call(fn, val) ==
  /\ ret' = [fn |-> fn, arg |-> void, val |-> val]
  /\ UNCHANGED <<nasParserCommandLine, stderr, engine, nparse, frame>>

\* nas_parser_print_usage putting the defaults back after printing.
PrintUsage_Resets ==
  /\ NbPrints < MaxPrints
  /\ \E version \in Versions :
       /\ stderr' = nas_parser_print_usage(version, nasParserCommandLine, stderr)
       /\ ret' = [fn |-> "nas_parser_print_usage", arg |-> version, val |-> void]
  /\ nasParserCommandLine' =
       [nasParserCommandLine EXCEPT !.options = nasParserCommandLineInit.options]
  /\ UNCHANGED <<engine, nparse, frame>>

PrintUsage ==
  /\ NbPrints < MaxPrints
  /\ \E version \in Versions :
       /\ stderr' = nas_parser_print_usage(version, nasParserCommandLine, stderr)
       /\ ret' = [fn |-> "nas_parser_print_usage", arg |-> version, val |-> void]
  /\ UNCHANGED <<nasParserCommandLine, engine, nparse, frame>>

GetOptions ==
  /\ nparse < MaxParses
  /\ \E argv \in ArgvSet :
       LET argc == Len(argv)
           r == nas_parser_get_options(argc, argv, nasParserCommandLine)
       IN  /\ nasParserCommandLine' = r.cl
           /\ engine' = [argc |-> argc, argv |-> argv,
                         status |-> parser_get_options(argc, argv,
                                       nasParserCommandLine).status]
           /\ ret' = [fn |-> "nas_parser_get_options", arg |-> argv,
                      val |-> r.status]
  /\ nparse' = nparse + 1
  /\ UNCHANGED <<stderr, frame>>

GetNbOptions ==
  Call("nas_parser_get_nb_options",
       nas_parser_get_nb_options(nasParserCommandLine))

GetTraceLevel ==
  \E v \in nas_parser_get_trace_level(nasParserCommandLine) :
    Call("nas_parser_get_trace_level", v)

GetNetworkHost ==
  Call("nas_parser_get_network_host",
       nas_parser_get_network_host(nasParserCommandLine))

GetNetworkPort ==
  Call("nas_parser_get_network_port",
       nas_parser_get_network_port(nasParserCommandLine))

\* nas_parser_get_ueid consuming the value it converts.
GetUeid_Consumes ==
  /\ ret' = [fn |-> "nas_parser_get_ueid", arg |-> void,
             val |-> nas_parser_get_ueid(nasParserCommandLine)]
  /\ nasParserCommandLine' =
       [nasParserCommandLine EXCEPT !.options[NAS_PARSER_UE_ID].pvalue = <<>>]
  /\ UNCHANGED <<stderr, engine, nparse, frame>>

GetUeid == Call("nas_parser_get_ueid", nas_parser_get_ueid(nasParserCommandLine))

GetUserHost ==
  Call("nas_parser_get_user_host",
       nas_parser_get_user_host(nasParserCommandLine))

GetUserPort ==
  Call("nas_parser_get_user_port",
       nas_parser_get_user_port(nasParserCommandLine))

GetDevicePath ==
  Call("nas_parser_get_device_path",
       nas_parser_get_device_path(nasParserCommandLine))

GetDeviceParams ==
  Call("nas_parser_get_device_params",
       nas_parser_get_device_params(nasParserCommandLine))

Next ==
  \/ PrintUsage
  \/ GetOptions
  \/ GetNbOptions
  \/ GetTraceLevel
  \/ GetNetworkHost
  \/ GetNetworkPort
  \/ GetUeid
  \/ GetUserHost
  \/ GetUserPort
  \/ GetDevicePath
  \/ GetDeviceParams

Spec == Init /\ [][Next]_vars

SpecHex == InitHex /\ [][NextHex]_vars

\* Sequential code runs on: an enabled step of atohex is eventually taken.
FairSpecHex == SpecHex /\ WF_vars(NextHex)

(***************************************************************************)
(* Properties of atohex (SpecHex, FairSpecHex).                            *)
(***************************************************************************)
\* The value of each hexadecimal digit, by table.
DigitVal ==
  ("0" :> 0) @@ ("1" :> 1) @@ ("2" :> 2) @@ ("3" :> 3) @@ ("4" :> 4) @@
  ("5" :> 5) @@ ("6" :> 6) @@ ("7" :> 7) @@ ("8" :> 8) @@ ("9" :> 9) @@
  ("A" :> 10) @@ ("B" :> 11) @@ ("C" :> 12) @@ ("D" :> 13) @@ ("E" :> 14) @@
  ("F" :> 15) @@
  ("a" :> 10) @@ ("b" :> 11) @@ ("c" :> 12) @@ ("d" :> 13) @@ ("e" :> 14) @@
  ("f" :> 15)

HexDigit == DOMAIN DigitVal

\* The maximal leading run of hex digits of s.
HexPrefix(s) ==
  LET n == CHOOSE k \in 0..Len(s) :
             /\ \A i \in 1..k : s[i] \in HexDigit
             /\ k < Len(s) => s[k + 1] \notin HexDigit
  IN  SubSeq(s, 1, n)

\* The number a digit string denotes in base 16.
RECURSIVE HexValue(_)
HexValue(ds) ==
  IF ds = <<>> THEN 0
  ELSE 16 * HexValue(SubSeq(ds, 1, Len(ds) - 1)) + DigitVal[ds[Len(ds)]]

\* The digit string denotes a number an int holds.
FitsInt(ds) ==
  \/ Len(ds) < IntDigits
  \/ Len(ds) = IntDigits /\ DigitVal[ds[1]] < 8

\* The int whose 32 bits are the IntDigits digits of ds.
BitsValue(ds) ==
  IF DigitVal[ds[1]] < 8 THEN HexValue(ds)
  ELSE (DigitVal[ds[1]] - 16) * (2 ^ (IntBits - 4)) + HexValue(Tail(ds))

LastDigits(ds) == SubSeq(ds, Len(ds) - IntDigits + 1, Len(ds))

Returned == frame.pc = "returned" /\ ~frame.arg.null

\* C1: a string that starts with a hex digit converts to the base-16 value of
\* its maximal leading run of hex digits, upper and lower case alike and
\* whatever follows the run, as long as that value fits an int
\* ("FF" -> 255, "100" -> 256, "1G3" -> 1, "aB" = "Ab" = "AB").
C1_HexPrefixValue ==
  Returned =>
    LET s == frame.arg.str
        P == HexPrefix(s)
    IN  /\ (Len(P) >= 1 /\ FitsInt(P)) => frame.retval = HexValue(P)
        /\ s = <<"F", "F">> => frame.retval = 255
        /\ s = <<"1", "0", "0">> => frame.retval = 256
        /\ s = <<"1", "G", "3">> => frame.retval = 1
        /\ s \in { <<"a", "B">>, <<"A", "b">>, <<"A", "B">> }
             => frame.retval = 171

C1_Witness ==
  /\ Returned
  /\ frame.arg.str = <<"1", "G", "3">>
  /\ frame.retval = 1

\* C2: the null pointer, the empty string and a string whose first character
\* is not a hex digit all convert to 0, and the conversion never faults.
C2_ZeroOnNoDigits ==
  /\ frame.pc # "fault"
  /\ (frame.pc = "returned" /\
        (frame.arg.null \/ HexPrefix(frame.arg.str) = <<>>))
       => frame.retval = 0

C2_Witness ==
  /\ frame.pc = "returned"
  /\ frame.arg.null
  /\ frame.reads = <<>>
  /\ frame.retval = 0

\* C9: with more than 8 leading hex digits the result is the int whose 32 bits
\* are the last 8 digits of the run; the digits before them have no effect.
C9_Wraparound ==
  Returned =>
    LET P == HexPrefix(frame.arg.str)
    IN  Len(P) > IntDigits => frame.retval = BitsValue(LastDigits(P))

C9_Witness ==
  /\ Returned
  /\ Len(HexPrefix(frame.arg.str)) > IntDigits
  /\ frame.arg.str[1] = "1"
  /\ frame.retval = -1

\* The scan of a non-null string reads offsets 0, 1, 2, ... in this order, never
\* past the first character that is not a hex digit, and is over exactly when
\* that character has been read, by the break.
ScanOrder ==
  ~frame.arg.null =>
    LET stop == Len(HexPrefix(frame.arg.str))
    IN  /\ frame.pc # "fault"
        /\ \A i \in 1..Len(frame.reads) : frame.reads[i] = i - 1
        /\ Len(frame.reads) <= stop + 1
        /\ frame.pc = "loop" => Len(frame.reads) = frame.a_char.off
        /\ frame.pc \in {"done", "returned"} =>
             /\ Len(frame.reads) = stop + 1
             /\ frame.exit = "break"
        /\ frame.exit = "break" <=> frame.pc \in {"done", "returned"}

\* C10: on every non-null string the scan terminates, having read left to
\* right up to and including the first non-hex character and nothing after
\* it, and it is the break on that character that ends the loop.
C10_ScanTerminates ==
  /\ []ScanOrder
  /\ (frame.pc = "entry" /\ ~frame.arg.null) ~> (frame.pc = "returned")

C10_Witness ==
  /\ Returned
  /\ frame.arg.str = <<"F", "F">>
  /\ frame.reads = <<0, 1, 2>>
  /\ frame.exit = "break"

(***************************************************************************)
(* Properties of the option table and the exported functions (Spec).       *)
(***************************************************************************)
\* The value fields of the descriptors, by index.
Values(cl) == [k \in DOMAIN cl.options |-> cl.options[k].pvalue]

Sentinel == <<"N", "U", "L", "L">>

\* The option names in the order they are declared.
DeclaredNames ==
  << <<"-", "u", "e", "i", "d">>, <<"-", "t", "r", "a", "c", "e">>,
     <<"-", "u", "h", "o", "s", "t">>, <<"-", "n", "h", "o", "s", "t">>,
     <<"-", "u", "p", "o", "r", "t">>, <<"-", "n", "p", "o", "r", "t">>,
     <<"-", "d", "e", "v">>, <<"-", "p", "a", "r", "a", "m", "s">> >>

\* The functions that only read the table.
Readers ==
  { "nas_parser_get_nb_options", "nas_parser_get_trace_level",
    "nas_parser_get_ueid", "nas_parser_get_user_host",
    "nas_parser_get_network_host", "nas_parser_get_user_port",
    "nas_parser_get_network_port", "nas_parser_get_device_path",
    "nas_parser_get_device_params", "nas_parser_print_usage" }

\* C3: in every state the option count is 8, the value of
\* NAS_PARSER_NB_OPTIONS and the number of descriptors, whose indices are
\* exactly 0..7; nas_parser_get_nb_options returns it.
C3_OptionCount ==
  /\ nas_parser_get_nb_options(nasParserCommandLine) = 8
  /\ NAS_PARSER_NB_OPTIONS = 8
  /\ Cardinality(DOMAIN nasParserCommandLine.options) = 8
  /\ DOMAIN nasParserCommandLine.options = 0..7
  /\ ret.fn = "nas_parser_get_nb_options" => ret.val = 8

C3_Witness ==
  /\ ret.fn = "nas_parser_get_nb_options"
  /\ ret.val = 8
  /\ nparse >= 1
  /\ Values(nasParserCommandLine) # Values(nasParserCommandLineInit)

\* C4: a call of an accessor or of nas_parser_print_usage leaves the table as
\* it was (command name, count, every descriptor), and an accessor called
\* twice in a row returns the same value both times.
C4_ReadersKeepTable ==
  [][ret'.fn \in Readers =>
       /\ nasParserCommandLine' = nasParserCommandLine
       /\ ret.fn = ret'.fn => ret'.val = ret.val]_vars

C4_Witness ==
  /\ ret.fn = "nas_parser_get_trace_level"
  /\ ret.val = 255
  /\ nasParserCommandLine.options[1].pvalue = <<"F", "F">>

\* C5: each string accessor returns the value of its own slot (user host 2,
\* network host 3, user port 4, network port 5, device path 6, device
\* params 7); before any parse that is the declared default, "NULL" for
\* user host, device path and device params.
C5_StringAccessors ==
  LET slot == ("nas_parser_get_user_host" :> 2) @@
              ("nas_parser_get_network_host" :> 3) @@
              ("nas_parser_get_user_port" :> 4) @@
              ("nas_parser_get_network_port" :> 5) @@
              ("nas_parser_get_device_path" :> 6) @@
              ("nas_parser_get_device_params" :> 7)
      default == (2 :> Sentinel) @@
                 (3 :> NAS_PARSER_DEFAULT_NETWORK_HOSTNAME) @@
                 (4 :> NAS_PARSER_DEFAULT_USER_PORT_NUMBER) @@
                 (5 :> NAS_PARSER_DEFAULT_NETWORK_PORT_NUMBER) @@
                 (6 :> Sentinel) @@ (7 :> Sentinel)
  IN  ret.fn \in DOMAIN slot =>
        /\ ret.val = nasParserCommandLine.options[slot[ret.fn]].pvalue
        /\ nparse = 0 => ret.val = default[slot[ret.fn]]

C5_Witness ==
  /\ ret.fn = "nas_parser_get_device_path"
  /\ nparse = 0
  /\ ret.val = <<"N", "U", "L", "L">>

\* C6 as stated: once a first nas_parser_get_options call has returned, the
\* value fields never change again.
C6_MutatedOnce ==
  [][nparse >= 1 =>
       Values(nasParserCommandLine') = Values(nasParserCommandLine)]_vars

\* C6 amended: the value fields change only in a call of
\* nas_parser_get_options (each such call may change them again); no other
\* exported function changes them.
C6_MutatedOnlyByParse ==
  [][Values(nasParserCommandLine') # Values(nasParserCommandLine) =>
       /\ ret'.fn = "nas_parser_get_options"
       /\ nparse' = nparse + 1]_vars

C6_Witness ==
  /\ nparse = 2
  /\ ret.fn = "nas_parser_get_options"
  /\ nasParserCommandLine.options[0].pvalue = <<"F", "F">>
  /\ nasParserCommandLine.options[1].pvalue = <<"1", "G", "3">>

\* C7: nas_parser_get_options returns the status the engine's parse of the
\* same (argc, argv) produced, failure as well as success.
C7_StatusPassedThrough ==
  ret.fn = "nas_parser_get_options" =>
    /\ engine.argv = ret.arg
    /\ engine.argc = Len(ret.arg)
    /\ ret.val = engine.status
    /\ ret.val \in {RETURNok, RETURNerror}

C7_Witness ==
  /\ ret.fn = "nas_parser_get_options"
  /\ engine.status = RETURNerror
  /\ ret.val = RETURNerror

\* C8: every call of nas_parser_print_usage writes the eight option lines in
\* declared order and then one line with the version it was given: stderr
\* is made of blocks of eight option lines followed by a version line.
C8_UsageThenVersion ==
  /\ Len(stderr) % 9 = 0
  /\ \A k \in DOMAIN stderr :
       IF k % 9 = 0 THEN stderr[k].kind = "version"
       ELSE /\ stderr[k].kind = "option"
            /\ stderr[k].name = DeclaredNames[k % 9]
  /\ ret.fn = "nas_parser_print_usage" =>
       /\ Len(stderr) >= 9
       /\ stderr[Len(stderr)] = [kind |-> "version", text |-> ret.arg]

C8_Witness ==
  /\ ret.fn = "nas_parser_print_usage"
  /\ ret.arg = <<"2">>
  /\ nparse >= 1
  /\ Len(stderr) = 9

====
